---- MODULE Spec2Model ----
(***************************************************************************)
(* A model of src/main.py: the sitemap crawler of the_sun.db.              *)
(*                                                                         *)
(*   save_to_db              the queue consumer that writes batches        *)
(*   extract_text_from_url   one fetch task, under the global semaphore    *)
(*   get_sitemap_links       the cached sitemap resolver                   *)
(*   find_articles_in_sitemap, main   the orchestration                    *)
(*                                                                         *)
(* The asyncio event loop runs one coroutine at a time and switches only   *)
(* at an await that suspends, so an action is the code between two such    *)
(* awaits.  Put on the unbounded asyncio.Queue never suspends.             *)
(*                                                                         *)
(* A URL is a natural number.  A match record (url, title, phrase, count,  *)
(* date_published) is modelled by its key and its count: [url, count].     *)
(***************************************************************************)
EXTENDS Integers, Sequences, FiniteSets, TLC

\* ------------------------------------------------------------ constants

\* asyncio.Semaphore(50)
SemaphoreCapacity == 50
\* len(buffer) >= 10
BatchSize == 10
\* for attempt in range(3)
MaxAttempts == 3
\* year_from = 2025, year_to = 2025
YearFrom == 2025
YearTo == 2025

\* --------------------------------------------------------------- bounds

\* the longest sequence of records submitted to save_to_db on its own
MaxRecords == 25
\* the largest number of article URLs fanned out by one run of main
MaxArticles == 2
\* the number of fetch tasks of the limiter's counting model
FanOut == 52
\* the longest listing of child sitemaps the root sitemap answers
MaxChildren == 2
\* the longest article text matched on its own
MaxText == 4

\* ------------------------------------------------------------ variables

VARIABLES
    \* the articles table, rows in insertion order
    store,
    \* asyncio.Queue(): records, then the None sentinel
    queue,
    \* save_to_db: its buffer and its position
    buffer, wpc,
    \* history: the size of each executemany batch, in order
    writes,
    \* history: the number of rows the table held at start
    pre,
    \* the caller of save_to_db on its own: the records to submit, and how
    \* many of them (and the sentinel) have been submitted
    input, sent,
    \* semaphore._value
    sem,
    \* find_articles_in_sitemap: the URLs fanned out, one task each
    all_article_urls,
    \* per task: position, loop variable attempt, returned value
    tpc, attempt, result,
    \* history, per task: the asyncio.sleep delays, and the requests issued
    sleeps, nreq,
    \* the limiter's counting model: how many tasks are at each position
    cnt,
    \* sitemap_cache
    sitemap_cache,
    \* get_sitemap_links: position, argument, loop variable attempt
    spc, sm_url, sm_attempt,
    \* history of the call in progress: its asyncio.sleep delays, and the
    \* requests it has issued
    sm_sleeps, sm_nreq,
    \* history, per sitemap URL the caller watches: the requests issued for
    \* it, and the calls of get_sitemap_links on it that have returned
    requests, calls,
    \* main and find_articles_in_sitemap: position and locals
    mpc, sitemap_links, filtered_links, fidx, articles,
    \* the matching on its own: the lowered text of a page and the phrase,
    \* the occurrences extract_text_from_url finds, and the value of
    \* count_phrase_occurrences (-1 before it is computed)
    article_text, phrase, page_count, phrase_count

sinkVars == <<store, queue, buffer, wpc, writes, pre>>
callerVars == <<input, sent>>
taskVars == <<sem, all_article_urls, tpc, attempt, result, sleeps, nreq>>
smVars == <<sitemap_cache, spc, sm_url, sm_attempt, sm_sleeps, sm_nreq,
            requests, calls>>
mainVars == <<mpc, sitemap_links, filtered_links, fidx, articles>>
matchVars == <<article_text, phrase, page_count, phrase_count>>
vars == <<sinkVars, callerVars, taskVars, cnt, smVars, mainVars, matchVars>>

\* -------------------------------------------------------------- helpers

Linear(n) == n + 1
RECURSIVE Pow2(_)
\* 2 ** attempt
Pow2(n) == IF n = 0 THEN 1 ELSE 2 * Pow2(n - 1)

\* the None put on the queue to end the stream
None == [url |-> 0, count |-> 0]

Record(u, c) == [url |-> u, count |-> c]

Urls(rows) == {rows[i].url : i \in 1..Len(rows)}

\* ------------------------------------------------------------ the store

\* INSERT OR IGNORE, url TEXT UNIQUE: one row, skipped when the url is there
InsertAlways(rows, rec) == Append(rows, rec)
InsertOrIgnore(rows, rec) ==
    IF rec.url \in Urls(rows) THEN rows ELSE Append(rows, rec)

RECURSIVE ExecuteManyLastFirst(_, _)
RECURSIVE ExecuteMany(_, _)
\* db.executemany(INSERT OR IGNORE ..., buffer)
ExecuteManyLastFirst(rows, buf) ==
    IF buf = <<>> THEN rows
    ELSE ExecuteManyLastFirst(InsertOrIgnore(rows, buf[Len(buf)]),
                              SubSeq(buf, 1, Len(buf) - 1))
ExecuteMany(rows, buf) ==
    IF buf = <<>> THEN rows
    ELSE ExecuteMany(InsertOrIgnore(rows, Head(buf)), Tail(buf))

\* ----------------------------------------------------------- save_to_db

\* if len(buffer) >= 10
BufferOverfullAt(n) == n > BatchSize
BufferFullAt(n) == n >= BatchSize

\* after the loop: if buffer, the last write; else save_to_db returns
AfterLoopReturn(buf) == "done"
AfterLoop(buf) == IF buf # <<>> THEN "final" ELSE "done"

\* data = await queue.get(); break on None; buffer.append(data)
WorkerGet ==
    /\ wpc = "get"
    /\ queue # <<>>
    /\ queue' = Tail(queue)
    /\ IF Head(queue) = None
       THEN /\ buffer' = buffer
            /\ wpc' = AfterLoop(buffer)
       ELSE /\ buffer' = Append(buffer, Head(queue))
            /\ wpc' = IF BufferFullAt(Len(buffer) + 1) THEN "flush" ELSE "get"
    /\ UNCHANGED <<store, writes, pre>>
    /\ UNCHANGED <<callerVars, taskVars, cnt, smVars, mainVars>>
    /\ UNCHANGED matchVars

\* the batch write inside the loop: executemany, commit, buffer.clear()
WorkerFlush ==
    /\ wpc = "flush"
    /\ store' = ExecuteMany(store, buffer)
    /\ writes' = Append(writes, Len(buffer))
    /\ buffer' = <<>>
    /\ wpc' = "get"
    /\ UNCHANGED <<queue, pre>>
    /\ UNCHANGED <<callerVars, taskVars, cnt, smVars, mainVars>>
    /\ UNCHANGED matchVars

\* the write after the loop: executemany, commit (the buffer is not cleared)
WorkerFinal ==
    /\ wpc = "final"
    /\ store' = ExecuteMany(store, buffer)
    /\ writes' = Append(writes, Len(buffer))
    /\ wpc' = "done"
    /\ UNCHANGED <<queue, buffer, pre>>
    /\ UNCHANGED <<callerVars, taskVars, cnt, smVars, mainVars>>
    /\ UNCHANGED matchVars

\* --------------------------------------------- save_to_db, on its own

\* await queue.put(item)
Put(q, item) == Append(q, item)

\* n records whose URLs repeat with period k; the count tells them apart
PatternInput(n, k) == [i \in 1..n |-> Record(((i - 1) % k) + 1, i)]

Periods == {1, 3, BatchSize, MaxRecords + 1}

Inputs == {PatternInput(n, k) : n \in 0..MaxRecords, k \in Periods}

\* the table is empty, or holds a row of an earlier run
InitStores == {<<>>, <<Record(1, MaxRecords + 1)>>}

Distinct(recs) ==
    \A i, j \in 1..Len(recs) : recs[i].url = recs[j].url => i = j

\* a producer puts the next record
Submit ==
    /\ sent < Len(input)
    /\ queue' = Put(queue, input[sent + 1])
    /\ sent' = sent + 1
    /\ UNCHANGED <<store, buffer, wpc, writes, pre, input>>
    /\ UNCHANGED <<taskVars, cnt, smVars, mainVars>>
    /\ UNCHANGED matchVars

\* queue.put(None), after the last record
Close ==
    /\ sent = Len(input)
    /\ queue' = Put(queue, None)
    /\ sent' = sent + 1
    /\ UNCHANGED <<store, buffer, wpc, writes, pre, input>>
    /\ UNCHANGED <<taskVars, cnt, smVars, mainVars>>
    /\ UNCHANGED matchVars

\* ---------------------------------------------------------- the limiter

\* Semaphore.acquire returns at once when the value is positive, and waits
\* otherwise; release adds one and wakes a waiter
NeverLocked(v) == TRUE
LockedBelowCapacity(v) == v > SemaphoreCapacity
CanAcquire(v) == v > 0
AcquireSlot(v) == v - 1
ReleaseSlot(v) == v + 1

\* ------------------------------------------------------------- matching

IsWord(c) == c \in {"d", "r", "D", "R"}

Lower(c) == IF c = "D" THEN "d" ELSE IF c = "R" THEN "r" ELSE c

\* phrase = "dishy rishi": a word, a space, a word
Phrase == <<"d", " ", "r">>

\* (?<!\w)phrase(?!\w|$), re.IGNORECASE, tried at position i
MatchAt(text, p, i) ==
    /\ i + Len(p) - 1 <= Len(text)
    /\ \A k \in 1..Len(p) : Lower(text[i + k - 1]) = Lower(p[k])
    /\ (i = 1 \/ ~IsWord(text[i - 1]))
    /\ ~(i + Len(p) > Len(text) \/ IsWord(text[i + Len(p)]))

RECURSIVE FindAllFrom(_, _, _)
\* the matches findall reports from position pos on: leftmost first, the
\* search resuming where the match ended
FindAllFrom(text, p, pos) ==
    IF pos + Len(p) - 1 > Len(text) THEN 0
    ELSE IF MatchAt(text, p, pos)
         THEN 1 + FindAllFrom(text, p, pos + Len(p))
         ELSE FindAllFrom(text, p, pos + 1)

\* occurrences = len(phrase_pattern.findall(article_text))
Occurrences(text, p) == FindAllFrom(text, p, 1)

\* ---------------------------------------------- count_phrase_occurrences

\* text.lower(), phrase.lower()
LowerSeq(s) == [i \in DOMAIN s |-> Lower(s[i])]

\* the character at position i; outside the text there is none
At(text, i) == IF i \in 1..Len(text) THEN text[i] ELSE ""

\* \b before position i: a word character on exactly one side
WordBoundary(text, i) == IsWord(At(text, i - 1)) # IsWord(At(text, i))

\* [\s\n\r.,!?;:'"”)]
InClass(c) == c \in {" ", "."}

\* \bphrase[...]*\b tried at position i: the position after the match, the
\* class being taken greedily, or 0 when there is no match
CountMatchEnd(text, p, i) ==
    LET e == i + Len(p)
        literal == /\ e - 1 <= Len(text)
                   /\ \A k \in 1..Len(p) : text[i + k - 1] = p[k]
        ends == {k \in 0..(Len(text) - e + 1) :
                    /\ \A j \in e..(e + k - 1) : InClass(text[j])
                    /\ WordBoundary(text, e + k)}
    IN IF WordBoundary(text, i) /\ literal /\ ends # {}
       THEN e + (CHOOSE k \in ends : \A l \in ends : l <= k)
       ELSE 0

RECURSIVE CountFrom(_, _, _)
\* re.findall from position pos on: leftmost first, not overlapping
CountFrom(text, p, pos) ==
    IF pos > Len(text) THEN 0
    ELSE LET e == CountMatchEnd(text, p, pos)
         IN IF e # 0 THEN 1 + CountFrom(text, p, e)
            ELSE CountFrom(text, p, pos + 1)

\* count_phrase_occurrences(text, phrase)
CountPhraseOccurrences(text, p) == CountFrom(LowerSeq(text), LowerSeq(p), 1)

\* the article text of a page the site may answer
PageTexts ==
    { <<"r", ".">>,
      <<"d", " ", "r">>,
      <<"d", " ", "r", ".">> }

\* ------------------------------------------------ extract_text_from_url

Tasks == DOMAIN tpc

\* the failures that lead to asyncio.sleep: status 429 or 500, or an
\* exception raised inside the try (a timeout or connection error, or an
\* error raised while the body of a 200 response is read and parsed)
Transient == {"429", "500", "timeout", "malformed"}

\* the status branch "elif response.status in {429, 500}" and the handler
\* "except Exception" take every one of them
CaughtFromNetwork(o) == o \in Transient \ {"malformed"}
Caught(o) == o \in Transient

\* asyncio.sleep(2 ** attempt)
DoubleDelay(a) == 2 * a
Delay(a) == Pow2(a)

\* the coroutine returns r: its locals, and the history kept of the
\* invocation, go with its frame
Finished(t, r) ==
    /\ tpc' = [tpc EXCEPT ![t] = "done"]
    /\ result' = [result EXCEPT ![t] = r]
    /\ attempt' = [attempt EXCEPT ![t] = 0]
    /\ sleeps' = [sleeps EXCEPT ![t] = <<>>]
    /\ nreq' = [nreq EXCEPT ![t] = 0]

\* leaving "async with semaphore": the slot is released, the value returned
ReturnKeepingSlot(t, r) ==
    /\ Finished(t, r)
    /\ sem' = sem
Return(t, r) ==
    /\ Finished(t, r)
    /\ sem' = ReleaseSlot(sem)

\* the end of one pass of "for attempt in range(3)": the next request, or
\* after the last pass the "return None" that follows the loop
OneMoreAttempt(a) == a >= MaxAttempts
LastAttempt(a) == a + 1 >= MaxAttempts

NextAttempt(t) ==
    IF LastAttempt(attempt[t])
    THEN Return(t, <<>>)
    ELSE /\ attempt' = [attempt EXCEPT ![t] = @ + 1]
         /\ nreq' = [nreq EXCEPT ![t] = @ + 1]
         /\ tpc' = [tpc EXCEPT ![t] = "request"]
         /\ UNCHANGED <<sem, result, sleeps>>

\* async with semaphore, then the first session.get
TaskStart(t) ==
    /\ tpc[t] = "start"
    /\ CanAcquire(sem)
    /\ sem' = AcquireSlot(sem)
    /\ tpc' = [tpc EXCEPT ![t] = "request"]
    /\ nreq' = [nreq EXCEPT ![t] = 1]
    /\ UNCHANGED <<all_article_urls, attempt, result, sleeps>>
    /\ UNCHANGED <<sinkVars, callerVars, cnt, smVars, mainVars>>
    /\ UNCHANGED matchVars

\* status 200: the text is matched; a record is put when the phrase occurs
TaskRespond200(t, text) ==
    /\ tpc[t] = "request"
    /\ LET occurrences == Occurrences(text, Phrase)
           url == all_article_urls[t]
       IN IF occurrences > 0
          THEN /\ queue' = Put(queue, Record(url, occurrences))
               /\ Return(t, <<url>>)
          ELSE /\ queue' = queue
               /\ Return(t, <<>>)
    /\ UNCHANGED all_article_urls
    /\ UNCHANGED <<store, buffer, wpc, writes, pre>>
    /\ UNCHANGED <<callerVars, cnt, smVars, mainVars>>
    /\ UNCHANGED matchVars

\* status 429 or 500, or an exception: await asyncio.sleep(2 ** attempt)
TaskRespondTransient(t, o) ==
    /\ tpc[t] = "request"
    /\ Caught(o)
    /\ tpc' = [tpc EXCEPT ![t] = "sleep"]
    /\ sleeps' = [sleeps EXCEPT ![t] = Append(@, Delay(attempt[t]))]
    /\ UNCHANGED <<sem, all_article_urls, attempt, result, nreq>>
    /\ UNCHANGED <<sinkVars, callerVars, cnt, smVars, mainVars>>
    /\ UNCHANGED matchVars

\* any other status (404): neither branch is taken, the loop goes on
TaskRespondOther(t) ==
    /\ tpc[t] = "request"
    /\ NextAttempt(t)
    /\ UNCHANGED all_article_urls
    /\ UNCHANGED <<sinkVars, callerVars, cnt, smVars, mainVars>>
    /\ UNCHANGED matchVars

\* the sleep is over: the loop goes on
TaskWake(t) ==
    /\ tpc[t] = "sleep"
    /\ NextAttempt(t)
    /\ UNCHANGED all_article_urls
    /\ UNCHANGED <<sinkVars, callerVars, cnt, smVars, mainVars>>
    /\ UNCHANGED matchVars

\* ------------------------------------- the limiter, with many tasks

\* The FanOut tasks of one gather, counted by position: "start" (not yet
\* past "async with semaphore"), "request", "sleep", "done".  A task moves as
\* in extract_text_from_url, without its attempt number.
Move(from, to) ==
    /\ cnt[from] > 0
    /\ cnt' = [cnt EXCEPT ![from] = @ - 1, ![to] = @ + 1]
    /\ UNCHANGED <<sinkVars, callerVars, smVars, mainVars>>
    /\ UNCHANGED <<all_article_urls, tpc, attempt, result, sleeps, nreq>>
    /\ UNCHANGED matchVars

ManyStart ==
    /\ CanAcquire(sem)
    /\ sem' = AcquireSlot(sem)
    /\ Move("start", "request")

\* a 200 response, or the last pass of the loop ending on another status
ManyReturn ==
    /\ sem' = ReleaseSlot(sem)
    /\ Move("request", "done")

\* status 429 or 500, or an exception: the sleep is inside "async with"
ManySleepReleasing ==
    /\ sem' = ReleaseSlot(sem)
    /\ Move("request", "sleep")
ManySleep ==
    /\ sem' = sem
    /\ Move("request", "sleep")

\* the sleep is over and another pass follows
ManyRetry ==
    /\ sem' = sem
    /\ Move("sleep", "request")

\* the sleep of the last pass is over
ManyGiveUp ==
    /\ sem' = ReleaseSlot(sem)
    /\ Move("sleep", "done")

\* ----------------------------------------------------- the year filter

\* the configured sitemap_url
RootUrl == 100

\* the child sitemap URLs the root may list, and their text
Links == 101..106

LinkText(u) ==
    CASE u = 101 -> <<"2", "0", "2", "4", "-", "s">>
      [] u = 102 -> <<"2", "0", "2", "5", "-", "s">>
      [] u = 103 -> <<"a", "-", "s">>
      [] u = 104 -> <<"1", "9", "9", "9", "-", "2", "0", "2", "5">>
      [] u = 105 -> <<"s", "2", "0", "2", "5", "1">>
      [] u = 106 -> <<"2", "0", "2", "-", "5">>
      [] OTHER -> <<>>

SitemapUrls == {RootUrl} \cup Links

Digits == <<"0", "1", "2", "3", "4", "5", "6", "7", "8", "9">>

IsDigit(c) == \E d \in 1..Len(Digits) : Digits[d] = c

\* int() of one digit
DigitVal(c) == (CHOOSE d \in 1..Len(Digits) : Digits[d] = c) - 1

\* the positions where four digits follow one another
YearStarts(text) ==
    {i \in 1..(Len(text) - 3) : \A k \in 0..3 : IsDigit(text[i + k])}

\* int(match.group(1)) at position i
YearAt(text, i) ==
    1000 * DigitVal(text[i]) + 100 * DigitVal(text[i + 1])
        + 10 * DigitVal(text[i + 2]) + DigitVal(text[i + 3])

\* re.search(r'(\d{4})', link): the leftmost match, 0 when there is none
SearchYear(text) ==
    IF YearStarts(text) = {} THEN 0
    ELSE CHOOSE i \in YearStarts(text) : \A j \in YearStarts(text) : i <= j

\* (match := re.search(...)) and year_from <= int(match.group(1)) <= year_to
KeepsAll(link) == TRUE
Keeps(link) ==
    LET text == LinkText(link)
        i == SearchYear(text)
    IN /\ i # 0
       /\ YearFrom <= YearAt(text, i)
       /\ YearAt(text, i) <= YearTo

\* filtered_links = [link for link in sitemap_links if ...]
Filter(links) == SelectSeq(links, Keeps)

\* ---------------------------------------------------- get_sitemap_links

\* one more event for u, when u is watched
Count(log, u) == IF u \in DOMAIN log THEN [log EXCEPT ![u] = @ + 1] ELSE log

\* asyncio.sleep(2 ** attempt)
SmDelay(a) == Pow2(a)

\* the end of the last pass of "for attempt in range(3)"
SmLastAttempt(a) == a + 1 >= MaxAttempts

\* sitemap_cache[sitemap_url] = links
CachePut(cache, u, links) ==
    [v \in DOMAIN cache \cup {u} |-> IF v = u THEN links ELSE cache[v]]

\* if sitemap_url in sitemap_cache
CacheMiss(cache, u) == FALSE
CacheHit(cache, u) == u \in DOMAIN cache

\* find_articles_in_sitemap goes on with the links the call at position
\* ctx returned: the root's links are filtered, a child's links are added
Returned(ctx, links) ==
    IF ctx = "root"
    THEN /\ sitemap_links' = links
         /\ filtered_links' = Filter(links)
         /\ fidx' = 1
         /\ mpc' = "children"
         /\ UNCHANGED all_article_urls
    ELSE /\ all_article_urls' = all_article_urls \o links
         /\ fidx' = fidx + 1
         /\ mpc' = "children"
         /\ UNCHANGED <<sitemap_links, filtered_links>>

\* get_sitemap_links(session, u), up to its first await: the cached links
\* are returned at once, or the first request is issued
Call(u, ctx) ==
    /\ sm_url' = u
    /\ sm_attempt' = 0
    /\ sm_sleeps' = <<>>
    /\ IF CacheHit(sitemap_cache, u)
       THEN /\ Returned(ctx, sitemap_cache[u])
            /\ calls' = Count(calls, u)
            /\ UNCHANGED <<spc, sm_nreq, requests>>
       ELSE /\ spc' = "request"
            /\ sm_nreq' = 1
            /\ requests' = Count(requests, u)
            /\ mpc' = ctx
            /\ UNCHANGED <<calls, sitemap_links, filtered_links, fidx,
                           all_article_urls>>
    /\ UNCHANGED sitemap_cache

\* get_sitemap_links returns links to find_articles_in_sitemap
SmReturn(links) ==
    /\ spc' = "idle"
    /\ sm_attempt' = 0
    /\ sm_sleeps' = <<>>
    /\ sm_nreq' = 0
    /\ calls' = Count(calls, sm_url)
    /\ Returned(mpc, links)

SmNextAttempt ==
    IF SmLastAttempt(sm_attempt)
    THEN /\ SmReturn(<<>>)
         /\ UNCHANGED requests
    ELSE /\ sm_attempt' = sm_attempt + 1
         /\ sm_nreq' = sm_nreq + 1
         /\ requests' = Count(requests, sm_url)
         /\ spc' = "request"
         /\ UNCHANGED <<sm_sleeps, calls, mainVars, all_article_urls>>

\* the sequences of at most n elements of S
RECURSIVE SeqsUpTo(_, _)
SeqsUpTo(S, n) ==
    IF n = 0 THEN {<<>>}
    ELSE LET shorter == SeqsUpTo(S, n - 1)
         IN shorter \cup {Append(q, x) : q \in shorter, x \in S}

\* how often u is still to be resolved, from position i of filtered_links
Pending(u, i) ==
    Cardinality({j \in i..Len(filtered_links) : filtered_links[j] = u})

\* status 200 with a well-formed sitemap listing links: cached and returned.
\* The site lists at most MaxArticles article URLs over the children that
\* are resolved.
SmRespond200(links) ==
    /\ spc = "request"
    /\ mpc = "child" =>
         Len(all_article_urls) + Len(links) * Pending(sm_url, fidx)
             <= MaxArticles
    /\ sitemap_cache' = CachePut(sitemap_cache, sm_url, links)
    /\ SmReturn(links)
    /\ UNCHANGED <<sm_url, requests, articles>>
    /\ UNCHANGED <<sem, tpc, attempt, result, sleeps, nreq>>
    /\ UNCHANGED <<sinkVars, callerVars, cnt>>
    /\ UNCHANGED matchVars

\* status 429 or 500, or an exception (ET.fromstring raising on a malformed
\* body is one): await asyncio.sleep(2 ** attempt)
SmRespondTransient(o) ==
    /\ spc = "request"
    /\ Caught(o)
    /\ spc' = "sleep"
    /\ sm_sleeps' = Append(sm_sleeps, SmDelay(sm_attempt))
    /\ UNCHANGED <<sitemap_cache, sm_url, sm_attempt, sm_nreq, requests,
                   calls>>
    /\ UNCHANGED <<sinkVars, callerVars, taskVars, cnt, mainVars>>
    /\ UNCHANGED matchVars

\* any other status (404): neither branch is taken, the loop goes on
SmRespondOther ==
    /\ spc = "request"
    /\ SmNextAttempt
    /\ UNCHANGED <<sitemap_cache, sm_url, articles>>
    /\ UNCHANGED <<sem, tpc, attempt, result, sleeps, nreq>>
    /\ UNCHANGED <<sinkVars, callerVars, cnt>>
    /\ UNCHANGED matchVars

\* the sleep is over: the loop goes on
SmWake ==
    /\ spc = "sleep"
    /\ SmNextAttempt
    /\ UNCHANGED <<sitemap_cache, sm_url, articles>>
    /\ UNCHANGED <<sem, tpc, attempt, result, sleeps, nreq>>
    /\ UNCHANGED <<sinkVars, callerVars, cnt>>
    /\ UNCHANGED matchVars

\* ------------------------------------- find_articles_in_sitemap and main

\* init_db, the queue, create_task(save_to_db), and the call that resolves
\* the root sitemap
MainStart ==
    /\ mpc = "start"
    /\ wpc' = "get"
    /\ Call(RootUrl, "root")
    /\ UNCHANGED <<store, queue, buffer, writes, pre, articles>>
    /\ UNCHANGED <<sem, tpc, attempt, result, sleeps, nreq>>
    /\ UNCHANGED <<callerVars, cnt>>
    /\ UNCHANGED matchVars

\* for sitemap in filtered_links: get_sitemap_links(session, sitemap)
MainNextChild ==
    /\ mpc = "children"
    /\ fidx <= Len(filtered_links)
    /\ Call(filtered_links[fidx], "child")
    /\ UNCHANGED articles
    /\ UNCHANGED <<sem, tpc, attempt, result, sleeps, nreq>>
    /\ UNCHANGED <<sinkVars, callerVars, cnt>>
    /\ UNCHANGED matchVars

\* tasks = [extract_text_from_url(...) for url in all_article_urls]; gather
MainGather ==
    /\ mpc = "children"
    /\ fidx > Len(filtered_links)
    /\ mpc' = "gather"
    /\ tpc' = [t \in DOMAIN all_article_urls |-> "start"]
    /\ attempt' = [t \in DOMAIN all_article_urls |-> 0]
    /\ result' = [t \in DOMAIN all_article_urls |-> <<>>]
    /\ sleeps' = [t \in DOMAIN all_article_urls |-> <<>>]
    /\ nreq' = [t \in DOMAIN all_article_urls |-> 0]
    /\ UNCHANGED <<sem, all_article_urls, sitemap_links, filtered_links,
                   fidx, articles>>
    /\ UNCHANGED <<sinkVars, callerVars, cnt, smVars>>
    /\ UNCHANGED matchVars

\* results = await asyncio.gather(*tasks): every task has returned
GatheredAny == \E t \in Tasks : tpc[t] = "done"
Gathered == \A t \in Tasks : tpc[t] = "done"

RECURSIVE Flatten(_)
Flatten(ss) == IF ss = <<>> THEN <<>> ELSE Head(ss) \o Flatten(Tail(ss))

\* gather has every result: return [url for url in results if url is not
\* None]; then main puts None on the queue and awaits worker_task
MainGathered ==
    /\ mpc = "gather"
    /\ Gathered
    /\ articles' = Flatten(result)
    /\ queue' = Put(queue, None)
    /\ mpc' = "join"
    /\ UNCHANGED <<store, buffer, wpc, writes, pre>>
    /\ UNCHANGED <<sitemap_links, filtered_links, fidx>>
    /\ UNCHANGED <<callerVars, taskVars, cnt, smVars>>
    /\ UNCHANGED matchVars

\* await worker_task: save_to_db has returned
NotAwaited == TRUE
Joined == wpc = "done"

\* worker_task has finished: the articles found are logged
MainFinish ==
    /\ mpc = "join"
    /\ Joined
    /\ mpc' = "done"
    /\ UNCHANGED <<sitemap_links, filtered_links, fidx, articles>>
    /\ UNCHANGED <<sinkVars, callerVars, taskVars, cnt, smVars>>
    /\ UNCHANGED matchVars

\* ------------------------------------------------------- specifications

Positions == {"start", "request", "sleep", "done"}

NoTasks ==
    /\ sem = SemaphoreCapacity
    /\ all_article_urls = <<>>
    /\ tpc = <<>>
    /\ attempt = <<>>
    /\ result = <<>>
    /\ sleeps = <<>>
    /\ nreq = <<>>

NoCount == cnt = [p \in Positions |-> 0]

NoCaller == input = <<>> /\ sent = 0

NoMatching ==
    /\ article_text = <<>>
    /\ phrase = Phrase
    /\ page_count = -1
    /\ phrase_count = -1

\* sitemap_cache = {}
NoResolution(watched) ==
    /\ sitemap_cache = <<>>
    /\ spc = "idle"
    /\ sm_url = RootUrl
    /\ sm_attempt = 0
    /\ sm_sleeps = <<>>
    /\ sm_nreq = 0
    /\ requests = [u \in watched |-> 0]
    /\ calls = [u \in watched |-> 0]

MainAt(pos) ==
    /\ mpc = pos
    /\ sitemap_links = <<>>
    /\ filtered_links = <<>>
    /\ fidx = 1
    /\ articles = <<>>

EmptySink(pos) ==
    /\ store \in InitStores
    /\ pre = Len(store)
    /\ queue = <<>>
    /\ buffer = <<>>
    /\ writes = <<>>
    /\ wpc = pos

\* the article URLs of the site
ArticleUrls == 1..2

\* the listings of article URLs a child sitemap may answer
ArticleListings == SeqsUpTo(ArticleUrls, MaxArticles)

\* the listings the root answers in a run of main
SiteRoots == {<<101, 102, 103>>, <<102, 102>>, <<105, 102>>}

SiteAnswers(u) == IF u = RootUrl THEN SiteRoots ELSE ArticleListings

\* the listings the root answers when the resolution is run on its own
RootListings == SeqsUpTo(Links, MaxChildren) \cup {<<101, 102, 103>>}

RootAnswers(u) == IF u = RootUrl THEN RootListings ELSE ArticleListings

\* --- main()

Init ==
    /\ EmptySink("new")
    /\ NoCaller
    /\ NoTasks
    /\ NoCount
    /\ NoResolution({})
    /\ MainAt("start")
    /\ NoMatching

Next ==
    \/ MainStart
    \/ MainNextChild
    \/ MainGather
    \/ MainGathered
    \/ MainFinish
    \/ \E links \in SiteAnswers(sm_url) : SmRespond200(links)
    \/ \E o \in Transient : SmRespondTransient(o)
    \/ SmRespondOther
    \/ SmWake
    \/ \E t \in Tasks : TaskStart(t)
    \/ \E t \in Tasks : \E text \in PageTexts : TaskRespond200(t, text)
    \/ \E t \in Tasks : \E o \in Transient : TaskRespondTransient(t, o)
    \/ \E t \in Tasks : TaskRespondOther(t)
    \/ \E t \in Tasks : TaskWake(t)
    \/ WorkerGet
    \/ WorkerFinal

\* A run that fans out fewer than BatchSize articles never fills the buffer,
\* so WorkerFlush has no step in it; SpecSink has the runs that do.
Spec == Init /\ [][Next]_vars

\* The event loop runs a callback whenever one is ready, and every request
\* is answered, with a status, an error or a timeout: a run does not stop
\* while a step of it is possible.
SpecFair == Spec /\ WF_vars(Next)

\* --- find_articles_in_sitemap up to the fan-out

ResolveNext ==
    \/ MainStart
    \/ MainNextChild
    \/ \E links \in RootAnswers(sm_url) : SmRespond200(links)
    \/ \E o \in Transient : SmRespondTransient(o)
    \/ SmRespondOther
    \/ SmWake

ResolveInit ==
    /\ EmptySink("new")
    /\ NoCaller
    /\ NoTasks
    /\ NoCount
    /\ NoResolution(SitemapUrls)
    /\ MainAt("start")
    /\ NoMatching

SpecResolve == ResolveInit /\ [][ResolveNext]_vars

\* --- save_to_db fed by a caller

SinkInit ==
    /\ EmptySink("get")
    /\ input \in Inputs
    /\ sent = 0
    /\ NoTasks
    /\ NoCount
    /\ NoResolution({})
    /\ MainAt("off")
    /\ NoMatching

SinkNext ==
    \/ Submit
    \/ Close
    \/ WorkerGet
    \/ WorkerFlush
    \/ WorkerFinal

SpecSink == SinkInit /\ [][SinkNext]_vars

\* --- the semaphore under a fan-out wider than its capacity

LimiterInit ==
    /\ EmptySink("off")
    /\ store = <<>>
    /\ NoCaller
    /\ NoTasks
    /\ cnt = [p \in Positions |-> IF p = "start" THEN FanOut ELSE 0]
    /\ NoResolution({})
    /\ MainAt("gather")
    /\ NoMatching

LimiterNext ==
    \/ ManyStart
    \/ ManyReturn
    \/ ManySleep
    \/ ManyRetry
    \/ ManyGiveUp

SpecLimiter == LimiterInit /\ [][LimiterNext]_vars

\* --- the matching of one article text against one phrase

\* word characters, characters of the class, and another non-word character
Alphabet == {"d", "r", " ", ".", "-"}

\* section.get_text(...).lower(), joined: the lowered texts up to MaxText
Texts == SeqsUpTo(Alphabet, MaxText)

\* a word in lower and in upper case, and two words
Phrases == {<<"r">>, <<"R">>, <<"d", " ", "r">>}

\* occurrences = len(phrase_pattern.findall(article_text))
FindAll ==
    /\ page_count = -1
    /\ page_count' = Occurrences(article_text, phrase)
    /\ UNCHANGED <<article_text, phrase, phrase_count>>
    /\ UNCHANGED <<sinkVars, callerVars, taskVars, cnt, smVars, mainVars>>

\* count_phrase_occurrences(article_text, phrase)
CountPhrase ==
    /\ phrase_count = -1
    /\ phrase_count' = CountPhraseOccurrences(article_text, phrase)
    /\ UNCHANGED <<article_text, phrase, page_count>>
    /\ UNCHANGED <<sinkVars, callerVars, taskVars, cnt, smVars, mainVars>>

MatchInit ==
    /\ EmptySink("off")
    /\ store = <<>>
    /\ NoCaller
    /\ NoTasks
    /\ NoCount
    /\ NoResolution({})
    /\ MainAt("off")
    /\ article_text \in Texts
    /\ phrase \in Phrases
    /\ page_count = -1
    /\ phrase_count = -1

MatchNext ==
    \/ FindAll
    \/ CountPhrase

SpecMatch == MatchInit /\ [][MatchNext]_vars

\* ----------------------------------------------------------- properties

RowsOf(u) == {j \in 1..Len(store) : store[j].url = u}

\* C1: the articles table never holds two rows with one URL, and when
\* save_to_db has finished every URL that was put on the queue has exactly
\* one row, however often it was submitted and whether or not it was stored
\* before.
C1_OneRowPerUrl ==
    /\ Distinct(store)
    /\ wpc = "done" =>
         \A i \in 1..Len(input) : Cardinality(RowsOf(input[i].url)) = 1

\* a URL submitted twice in one batch and again in a later batch, and a URL
\* that was already stored
C1_Witness ==
    /\ wpc = "done"
    /\ pre > 0
    /\ \E i \in 1..Len(input) : input[i].url = store[1].url
    /\ \E i, j, k \in 1..Len(input) :
         /\ i < j /\ j <= BatchSize /\ BatchSize < k
         /\ input[i].url = input[j].url
         /\ input[j].url = input[k].url

\* the batches N records are written in: N \div 10 of 10, then the rest
Batches(n) ==
    [b \in 1..((n \div 10) + (IF n % 10 = 0 THEN 0 ELSE 1)) |->
        IF b <= n \div 10 THEN 10 ELSE n % 10]

\* C2: when N records with pairwise distinct URLs, none of them stored
\* before, are put on the queue and then the sentinel, save_to_db ends with
\* exactly those N rows added, written in N \div 10 batches of 10 and then
\* one batch of N mod 10 when that is not 0.
C2_NoRecordLost ==
    (/\ wpc = "done"
     /\ Distinct(input)
     /\ \A i \in 1..Len(input) : \A j \in 1..pre : store[j].url # input[i].url)
    => /\ Len(store) = pre + Len(input)
       /\ {store[j] : j \in (pre + 1)..Len(store)}
            = {input[i] : i \in 1..Len(input)}
       /\ writes = Batches(Len(input))

\* 25 records: batches of 10, 10 and 5
C2_Witness ==
    /\ wpc = "done"
    /\ Distinct(input)
    /\ Len(input) = 25
    /\ Len(store) = 25
    /\ writes = <<10, 10, 5>>

\* C3: the tasks past "async with semaphore" (with a request in flight or
\* in a backoff sleep) are never more than the capacity of the semaphore.
C3_AtMostCapacity ==
    cnt["request"] + cnt["sleep"] <= 50

\* every slot is taken while other tasks are still waiting for one
C3_Witness ==
    /\ cnt["request"] + cnt["sleep"] = 50
    /\ cnt["start"] > 0
    /\ cnt["done"] > 0

Holders == {t \in Tasks : tpc[t] \in {"request", "sleep"}}

\* C4: the slots taken from the semaphore are those of the tasks inside
\* "async with semaphore": a task that has returned holds none, and when
\* every task has returned the value is the capacity again.
C4_SlotsReleased ==
    /\ sem + Cardinality(Holders) = SemaphoreCapacity
    /\ (\A t \in Tasks : tpc[t] = "done") => sem = SemaphoreCapacity

\* two tasks have returned, one with a match and one without
C4_Witness ==
    /\ mpc = "join"
    /\ Len(tpc) = 2
    /\ \E t, u \in Tasks : result[t] # <<>> /\ result[u] = <<>>
    /\ sem = SemaphoreCapacity

\* get_sitemap_links returned the empty list to find_articles_in_sitemap
ReturnedEmpty ==
    /\ spc' = "idle"
    /\ mpc' = "children"
    /\ mpc = "root" => sitemap_links' = <<>>
    /\ mpc = "child" => all_article_urls' = all_article_urls

\* C5: one invocation of extract_text_from_url or get_sitemap_links issues
\* at most 3 requests, and when its last attempt has failed too it returns
\* None, respectively the empty list, to its caller.
C5_ThreeAttempts ==
    /\ [](\A t \in Tasks : nreq[t] <= 3)
    /\ [](sm_nreq <= 3)
    /\ [][\A t \in Tasks :
            (nreq[t] = 3 /\ (TaskWake(t) \/ TaskRespondOther(t)))
            => (tpc'[t] = "done" /\ result'[t] = <<>>)]_vars
    /\ [][(sm_nreq = 3 /\ (SmWake \/ SmRespondOther)) => ReturnedEmpty]_vars

\* a task whose three requests have all failed, beside a task still running
C5_Witness ==
    \E t, u \in Tasks :
        /\ tpc[t] = "sleep" /\ nreq[t] = 3
        /\ tpc[u] = "request"

\* the delay after a transient failure of attempt a
Backoff(a) == <<1, 2, 4>>[a + 1]

\* C6: after a transient failure (429, 500 or an exception) on attempt a the
\* fetch goes from its request to a sleep of 2^a, still on attempt a, in
\* extract_text_from_url and in get_sitemap_links; a page that fails twice
\* and then answers 200 with the phrase has slept 1 and then 2, and its
\* record is put on the queue.
C6_Backoff ==
    /\ [][\A t \in Tasks :
            (tpc[t] = "request" /\ tpc'[t] = "sleep")
            => /\ sleeps'[t] = Append(sleeps[t], Backoff(attempt[t]))
               /\ attempt'[t] = attempt[t]]_vars
    /\ [][(spc = "request" /\ spc' = "sleep")
            => /\ sm_sleeps' = Append(sm_sleeps, Backoff(sm_attempt))
               /\ sm_attempt' = sm_attempt]_vars
    /\ [][\A t \in Tasks :
            (/\ attempt[t] = 2
             /\ Len(sleeps[t]) = 2
             /\ TaskRespond200(t, <<"d", " ", "r", ".">>))
            => /\ sleeps[t] = <<1, 2>>
               /\ queue' = Append(queue, Record(all_article_urls[t], 1))
               /\ result'[t] = <<all_article_urls[t]>>]_vars

\* the third request of a task is in flight after two failures and two sleeps
C6_Witness ==
    \E t \in Tasks :
        /\ tpc[t] = "request"
        /\ attempt[t] = 2
        /\ sleeps[t] = <<1, 2>>

\* C7: a response with a status other than 200, 429 and 500 ends the fetch:
\* it returns no result and issues no further request.
C7_PermanentNotRetried ==
    /\ [][\A t \in Tasks :
            TaskRespondOther(t)
            => (tpc'[t] = "done" /\ result'[t] = <<>>)]_vars
    /\ [][SmRespondOther => ReturnedEmpty]_vars

\* C8 as stated: no request is issued for a cached URL, and two resolutions
\* of one URL issue exactly one request together.
C8_OneFetchForTwo ==
    \A u \in DOMAIN calls : calls[u] >= 2 => requests[u] = 1

\* find_articles_in_sitemap is about to call get_sitemap_links on the child u
Calling(u) ==
    /\ mpc = "children"
    /\ fidx <= Len(filtered_links)
    /\ filtered_links[fidx] = u

\* C8, amended: a call on a URL that is a key of sitemap_cache returns the
\* cached list and issues no request, and no request is issued for a URL
\* once it is in the cache; so two resolutions of one URL issue exactly one
\* request together when the first request was answered 200 with a sitemap.
C8_CachedNotFetched ==
    /\ [][\A u \in DOMAIN requests :
            u \in DOMAIN sitemap_cache => requests'[u] = requests[u]]_vars
    /\ [][\A u \in DOMAIN requests :
            (Calling(u) /\ u \in DOMAIN sitemap_cache /\ fidx' # fidx)
            => /\ all_article_urls' = all_article_urls \o sitemap_cache[u]
               /\ spc' = "idle"
               /\ fidx' = fidx + 1]_vars
    /\ [][\A u \in DOMAIN requests :
            (calls[u] >= 1 /\ requests[u] = 1 /\ u \in DOMAIN sitemap_cache)
            => requests'[u] = 1]_vars

\* a URL resolved twice with one request
C8_Witness ==
    \E u \in DOMAIN calls :
        /\ calls[u] = 2
        /\ requests[u] = 1
        /\ u \in DOMAIN sitemap_cache

\* C9: after a call of get_sitemap_links on u has returned, u is a key of
\* sitemap_cache.
C9_ResultCached ==
    \A u \in DOMAIN calls : calls[u] >= 1 => u \in DOMAIN sitemap_cache

\* the loop over filtered_links has ended
Resolved == mpc = "children" /\ fidx > Len(filtered_links)

Listed == {sitemap_links[i] : i \in 1..Len(sitemap_links)}

InRange(y) == 2025 <= y /\ y <= 2025

\* some four digits in a row of the text are a year in range
HasYearInRange(text) ==
    \E i \in YearStarts(text) : InRange(YearAt(text, i))

\* the leftmost four digits in a row of the text are a year in range
StartsWithYearInRange(text) ==
    \E i \in YearStarts(text) :
        /\ \A j \in YearStarts(text) : i <= j
        /\ InRange(YearAt(text, i))

\* C10 as stated: the child sitemaps resolved are exactly the listed ones
\* that contain a four-digit year in range.
C10_AnyYearToken ==
    Resolved =>
        {u \in Links : calls[u] >= 1}
            = {u \in Listed : HasYearInRange(LinkText(u))}

\* C10, amended: the child sitemaps resolved are exactly the listed ones
\* whose leftmost run of four digits is a year in range; no other child is
\* ever requested.
C10_FirstYearToken ==
    /\ \A u \in Links :
         requests[u] >= 1 =>
            (u \in Listed /\ StartsWithYearInRange(LinkText(u)))
    /\ Resolved =>
         {u \in Links : calls[u] >= 1}
            = {u \in Listed : StartsWithYearInRange(LinkText(u))}

\* the root lists 2024-s, 2025-s and a-s: only 2025-s has been resolved
C10_Witness ==
    /\ Resolved
    /\ sitemap_links = <<101, 102, 103>>
    /\ calls[102] = 1
    /\ calls[101] = 0
    /\ calls[103] = 0

\* the sentinel has been put on the queue
SentinelPut == mpc \in {"join", "done"}

\* C11: the sentinel is put only when every fetch task has returned; it is
\* the last item of the queue and nothing is put after it; the consumer that
\* takes it off writes its non-empty buffer, and once it has finished it
\* takes nothing more off the queue and writes nothing more.
C11_SentinelLast ==
    /\ [](SentinelPut => \A t \in Tasks : tpc[t] = "done")
    /\ [](\A i \in 1..Len(queue) : queue[i] = None => i = Len(queue))
    /\ [][SentinelPut => (queue' = queue \/ queue' = Tail(queue))]_vars
    /\ [][(wpc = "get" /\ wpc' # "get")
            => /\ Head(queue) = None
               /\ queue' = <<>>
               /\ wpc' = (IF buffer # <<>> THEN "final" ELSE "done")]_vars
    /\ [][wpc = "final"
            => (wpc' = "final"
                \/ /\ wpc' = "done"
                   /\ store' = ExecuteMany(store, buffer))]_vars
    /\ [](wpc = "done"
            => /\ queue = <<>>
               /\ \A i \in 1..Len(buffer) : buffer[i].url \in Urls(store))
    /\ [][wpc = "done"
            => (wpc' = "done" /\ queue' = queue /\ store' = store)]_vars

\* the consumer has finished after writing the two records that were put
\* before the sentinel
C11_Witness ==
    /\ mpc = "join"
    /\ wpc = "done"
    /\ writes = <<2>>
    /\ queue = <<>>

\* the resolution of the root sitemap has failed: get_sitemap_links has
\* returned for it without a 200 response, so nothing is cached for it
RootFailed == mpc \notin {"start", "root"} /\ RootUrl \notin DOMAIN sitemap_cache

\* C12: a run whose root sitemap could not be resolved does not complete
\* normally (reporting zero matching articles).
C12_RootFailureAborts ==
    RootFailed => mpc # "done"

\* the occurrences of p in text that have a non-word character, the start or
\* the end of the text on each side
BoundedOccurrences(text, p) ==
    Cardinality({i \in 1..Len(text) :
        /\ i + Len(p) - 1 <= Len(text)
        /\ \A k \in 1..Len(p) : Lower(text[i + k - 1]) = Lower(p[k])
        /\ ~IsWord(At(text, i - 1))
        /\ ~IsWord(At(text, i + Len(p)))})

\* C13: the occurrences extract_text_from_url counts are the occurrences of
\* the phrase bounded on each side by a non-word character, the start or the
\* end of the text (an occurrence that ends the text included), and they
\* are what count_phrase_occurrences returns for the same text and phrase.
C13_WordBoundaryCount ==
    /\ page_count # -1
         => page_count = BoundedOccurrences(article_text, phrase)
    /\ (page_count # -1 /\ phrase_count # -1) => page_count = phrase_count

\* the URLs the table held before the run
StoredBefore == {store[j].url : j \in 1..pre}

\* the URLs for which a fetch task ended with a match
Matched == {all_article_urls[t] : t \in {u \in Tasks : result[u] # <<>>}}

\* C14: when the run has ended, the URLs in the table are those it held
\* before and those of the article URLs whose fetch ended with a match: the
\* set is decided by the article URLs and the outcomes of their fetches,
\* whatever the order in which the tasks and the consumer took their steps.
C14_SetFromOutcomes ==
    mpc = "done" => Urls(store) = StoredBefore \cup Matched

\* two articles matched and the second task's record was written first
C14_Witness ==
    /\ mpc = "done"
    /\ Len(all_article_urls) = 2
    /\ all_article_urls[1] # all_article_urls[2]
    /\ Matched = {all_article_urls[1], all_article_urls[2]}
    /\ pre = 0
    /\ store[1].url = all_article_urls[2]

\* C15 as stated: the slots taken are those of the tasks with a request in
\* flight; a task in a backoff sleep holds none.
C15_HeldOnlyInFlight ==
    sem = SemaphoreCapacity - cnt["request"]

\* C15, amended: a task holds its slot from "async with semaphore" until it
\* returns, through its requests and its backoff sleeps alike: going to
\* sleep frees no slot, and while every slot is held, by tasks in backoff
\* too, no other task starts.
C15_HeldUntilReturn ==
    /\ [](sem = SemaphoreCapacity - cnt["request"] - cnt["sleep"])
    /\ [][cnt'["sleep"] > cnt["sleep"] => sem' = sem]_vars
    /\ [][cnt["request"] + cnt["sleep"] = SemaphoreCapacity
            => cnt'["start"] = cnt["start"]]_vars

\* every slot is held by a task in backoff while others wait to start
C15_Witness ==
    /\ cnt["sleep"] = SemaphoreCapacity
    /\ cnt["request"] = 0
    /\ cnt["start"] > 0
    /\ sem = 0

\* C16 as stated: a malformed document raises out of the operation: the
\* task or the resolver goes to no backoff sleep, and main goes no further.
C16_MalformedPropagates ==
    /\ [][\A t \in Tasks :
            TaskRespondTransient(t, "malformed") => tpc'[t] = "raised"]_vars
    /\ [][SmRespondTransient("malformed") => spc' = "raised"]_vars
    /\ [](mpc # "done")

\* C16, amended: a malformed document is caught where it is met and is
\* handled as a transient failure: the operation sleeps 2^attempt inside its
\* loop, keeps its slot, caches nothing, and goes on to its next attempt or,
\* after the third, to its no-result return.
C16_MalformedRetried ==
    /\ [](\A t \in Tasks :
            tpc[t] = "request" => ENABLED TaskRespondTransient(t, "malformed"))
    /\ [](spc = "request" => ENABLED SmRespondTransient("malformed"))
    /\ [][\A t \in Tasks :
            TaskRespondTransient(t, "malformed")
            => /\ tpc'[t] = "sleep"
               /\ sem' = sem
               /\ queue' = queue]_vars
    /\ [][SmRespondTransient("malformed")
            => /\ spc' = "sleep"
               /\ sitemap_cache' = sitemap_cache
               /\ mpc' = mpc]_vars
    /\ [](\A t \in Tasks : tpc[t] = "sleep" => ENABLED TaskWake(t))
    /\ [](spc = "sleep" => ENABLED SmWake)

\* a task sleeps after the failure of its first attempt was caught, while
\* main awaits the gather
C16_Witness ==
    /\ mpc = "gather"
    /\ \E t \in Tasks : tpc[t] = "sleep" /\ sleeps[t] = <<1>>

RECURSIVE FirstKept(_, _)
\* the records of recs, in order, whose URL is neither in the set seen nor
\* the URL of an earlier record of recs
FirstKept(recs, seen) ==
    IF recs = <<>> THEN <<>>
    ELSE IF Head(recs).url \in seen
         THEN FirstKept(Tail(recs), seen)
         ELSE <<Head(recs)>> \o FirstKept(Tail(recs), seen \cup {Head(recs).url})

\* the rows written since save_to_db started
Written == SubSeq(store, pre + 1, Len(store))

\* C17: the rows are written in the order in which their records were put
\* on the queue, within a batch and from batch to batch, and of the records
\* with one URL the row is that of the first one put: when save_to_db has
\* finished, the rows written are the first records of the new URLs, in the
\* order of submission.
C17_Fifo ==
    /\ \A i, j \in 1..Len(Written) :
         i < j => Written[i].count < Written[j].count
    /\ \A i \in 1..Len(Written) :
         /\ Written[i].count \in 1..sent
         /\ Written[i] = input[Written[i].count]
    /\ wpc = "done" => Written = FirstKept(input, StoredBefore)

\* a URL put in the first batch and again in the second: the row is the
\* first record's
C17_Witness ==
    /\ wpc = "done"
    /\ Len(writes) >= 2
    /\ \E i, j \in 1..Len(input) :
         /\ i <= BatchSize /\ BatchSize < j
         /\ input[i].url = input[j].url
         /\ \E k \in 1..Len(Written) : Written[k] = input[i]
         /\ \A k \in 1..Len(Written) : Written[k] # input[j]

\* main has ended: every task has returned, the consumer has finished, the
\* queue is empty and what the buffer held is written
Terminated ==
    /\ mpc = "done"
    /\ wpc = "done"
    /\ \A t \in Tasks : tpc[t] = "done"
    /\ spc = "idle"
    /\ queue = <<>>
    /\ \A i \in 1..Len(buffer) : buffer[i].url \in Urls(store)

\* C18: under fair scheduling, with every request answered, every run of
\* main ends: the tasks return, the sentinel is put, the consumer takes it
\* and finishes, and then the queue is empty and the buffer is written.
C18_Terminates ==
    /\ <>Terminated
    /\ (mpc = "gather") ~> SentinelPut
    /\ SentinelPut ~> (wpc = "done")

\* a run has ended after two tasks, one of them with a record written
C18_Witness ==
    /\ Terminated
    /\ Len(tpc) = 2
    /\ writes # <<>>

\* the URLs of the records that are on the queue, in the buffer or in a row
Kept ==
    {queue[i].url : i \in 1..Len(queue)}
        \cup {buffer[i].url : i \in 1..Len(buffer)}
        \cup Urls(store)

\* C19: a task that returns its URL has put its record on the queue in the
\* same step; the record is on the queue, in the buffer or in the table from
\* then on; and when main reports, every URL of its list has a row.
C19_ReportedAreStored ==
    /\ [][\A t \in Tasks :
            (tpc[t] # "done" /\ tpc'[t] = "done" /\ result'[t] # <<>>)
            => /\ result'[t] = <<all_article_urls[t]>>
               /\ Len(queue') = Len(queue) + 1
               /\ queue'[Len(queue')].url = all_article_urls[t]]_vars
    /\ [](\A t \in Tasks : result[t] # <<>> => result[t][1] \in Kept)
    /\ [](mpc = "done"
            => \A i \in 1..Len(articles) : articles[i] \in Urls(store))

\* main reports two URLs, both with a row written by this run
C19_Witness ==
    /\ mpc = "done"
    /\ Len(articles) = 2
    /\ articles[1] # articles[2]
    /\ pre = 0
    /\ Urls(store) = {articles[1], articles[2]}

\* C20: a fetch whose three attempts have all failed transiently has slept
\* 1, 2 and 4: the third sleep follows the last attempt, the task still in
\* "async with semaphore"; when it is over no request is made, the task
\* returns None and releases its slot, the resolver returns the empty list.
C20_ThreeDelays ==
    /\ [][\A t \in Tasks :
            (/\ tpc[t] = "request" /\ tpc'[t] = "sleep"
             /\ attempt[t] = 2 /\ Len(sleeps[t]) = 2)
            => /\ sleeps'[t] = <<1, 2, 4>>
               /\ sem' = sem]_vars
    /\ [](\A t \in Tasks :
            (tpc[t] = "sleep" /\ Len(sleeps[t]) = 3)
            => /\ sleeps[t] = <<1, 2, 4>>
               /\ sem < SemaphoreCapacity)
    /\ [][\A t \in Tasks :
            (Len(sleeps[t]) = 3 /\ tpc'[t] # tpc[t])
            => /\ tpc'[t] = "done"
               /\ result'[t] = <<>>
               /\ sem' = sem + 1
               /\ queue' = queue]_vars
    /\ [][(spc = "request" /\ spc' = "sleep" /\ Len(sm_sleeps) = 2)
            => sm_sleeps' = <<1, 2, 4>>]_vars
    /\ [][(Len(sm_sleeps) = 3 /\ spc' # spc)
            => /\ ReturnedEmpty
               /\ sitemap_cache' = sitemap_cache]_vars

\* a task is in its third sleep, after 1 and 2, beside a task that has
\* returned
C20_Witness ==
    \E t, u \in Tasks :
        /\ tpc[t] = "sleep"
        /\ attempt[t] = 2
        /\ sleeps[t] = <<1, 2, 4>>
        /\ tpc[u] = "done"

====
